---------------------------- MODULE Spec2Model ----------------------------
(***************************************************************************)
(* Model of the `approximately` crate: the ApproxEq trait (approx and      *)
(* assert_approx), its implementations for f32, f64, [A], Option<A>,       *)
(* f32x4 and f64x4 (src/src/lib.rs) and the Image example                  *)
(* (src/examples/image.rs).                                                *)
(*                                                                         *)
(* The crate is a set of pure functions, so the state machine draws a pair *)
(* of operands in Init and one action applies one trait method to them.    *)
(* Floating-point values are IEEE-754 binary32 / binary64 numbers held as  *)
(* sign, exponent and significand; subtraction, division, comparison and   *)
(* integer conversion are computed bit-exactly with round-to-nearest-even. *)
(***************************************************************************)
EXTENDS Integers, Sequences, FiniteSets, TLC

(***************************************************************************)
(* Evaluation order.  Let(v, F) is F(v) with v evaluated once, before F:   *)
(* the arithmetic below is a pipeline of such steps, as in the hardware.   *)
(***************************************************************************)
Let(v, F(_)) == CHOOSE r \in {F(x) : x \in {v}} : TRUE

Let2(v, w, F(_, _)) == CHOOSE r \in {F(x, y) : x \in {v}, y \in {w}} : TRUE

(***************************************************************************)
(* Wide naturals.  A binary64 significand with guard bits needs 57 bits,   *)
(* more than a 32-bit integer holds, so a significand is a pair of limbs:  *)
(* value = hi * 2^28 + lo, 0 <= lo < 2^28.                                 *)
(***************************************************************************)
\* Powers of two up to 2^30, P2[n + 1] = 2^n.
P2 ==
    << 1, 2, 4, 8, 16, 32, 64, 128, 256, 512, 1024, 2048, 4096, 8192, 16384,
       32768, 65536, 131072, 262144, 524288, 1048576, 2097152, 4194304,
       8388608, 16777216, 33554432, 67108864, 134217728, 268435456,
       536870912, 1073741824 >>

Pow2(n) == P2[n + 1]

Base == Pow2(28)

W(h, l) == [hi |-> h, lo |-> l]

WZero == W(0, 0)

WOne == W(0, 1)

WOfNat(n) == W(n \div Base, n % Base)

WIsZero(a) == a.hi = 0 /\ a.lo = 0

WLt(a, b) == a.hi < b.hi \/ (a.hi = b.hi /\ a.lo < b.lo)

WLe(a, b) == ~WLt(b, a)

WAdd(a, b) == W(a.hi + b.hi + ((a.lo + b.lo) \div Base), (a.lo + b.lo) % Base)

\* a - b for a >= b
WSub(a, b) ==
    IF a.lo >= b.lo THEN W(a.hi - b.hi, a.lo - b.lo)
    ELSE W(a.hi - b.hi - 1, a.lo + Base - b.lo)

WInc(a) == WAdd(a, WOne)

\* the powers of two as wide naturals, WP2[n + 1] = 2^n for n <= 58
WP2 == [i \in 1..59 |-> IF i <= 28 THEN W(0, P2[i]) ELSE W(P2[i - 28], 0)]

WPow2(n) == WP2[n + 1]

\* Number of significant bits: 0 for 0, k when 2^(k-1) <= a < 2^k.
BitLen(a) ==
    IF WIsZero(a) THEN 0
    ELSE CHOOSE k \in 1..58 : WLe(WPow2(k - 1), a) /\ WLt(a, WPow2(k))

\* a * 2^n, for a result below 2^58
WShl(a, n) ==
    IF n = 0 THEN a
    ELSE IF n >= 28 THEN W(a.lo * Pow2(n - 28), 0)
    ELSE W(a.hi * Pow2(n) + (a.lo \div Pow2(28 - n)),
           (a.lo % Pow2(28 - n)) * Pow2(n))

\* a with bit 0 set when lost
Sticky(a, lost) == IF lost /\ a.lo % 2 = 0 THEN W(a.hi, a.lo + 1) ELSE a

\* a shifted right by n < 28 bits; any 1 shifted out is kept in bit 0
WShrSmall(a, n, lost) ==
    Sticky(W(a.hi \div Pow2(n),
             (a.hi % Pow2(n)) * Pow2(28 - n) + (a.lo \div Pow2(n))),
           lost \/ a.lo % Pow2(n) # 0)

\* a shifted right by n bits; any 1 shifted out is kept in bit 0 (sticky)
WShrS(a, n) ==
    IF n < 28 THEN WShrSmall(a, n, FALSE)
    ELSE IF n < 56 THEN WShrSmall(W(0, a.hi), n - 28, a.lo # 0)
    ELSE Sticky(WZero, ~WIsZero(a))

WDiv8(a) == W(a.hi \div 8, (a.hi % 8) * (Base \div 8) + (a.lo \div 8))

WMod8(a) == a.lo % 8

(***************************************************************************)
(* IEEE-754 binary formats.  A finite value is (-1)^neg * m * 2^e with     *)
(* m < 2^p; it is normal when m >= 2^(p-1) and subnormal (or zero) when    *)
(* e = emin.  NaN carries no payload.                                      *)
(***************************************************************************)
F32 == [p |-> 24, emin |-> -149, emax |-> 104]

F64 == [p |-> 53, emin |-> -1074, emax |-> 971]

NaN == [k |-> "nan", neg |-> FALSE, e |-> 0, m |-> WZero]

Inf(s) == [k |-> "inf", neg |-> s, e |-> 0, m |-> WZero]

Fin(s, ex, mant) == [k |-> "fin", neg |-> s, e |-> ex, m |-> mant]

Zero(fmt, s) == Fin(s, fmt.emin, WZero)

IsNaN(x) == x.k = "nan"

IsFinite(x) == x.k = "fin"

IsZero(x) == x.k = "fin" /\ WIsZero(x.m)

\* Magnitude order of two finite values (both normalised).
MagLt(x, y) ==
    IF WIsZero(y.m) THEN FALSE
    ELSE IF WIsZero(x.m) THEN TRUE
    ELSE x.e < y.e \/ (x.e = y.e /\ WLt(x.m, y.m))

\* The left shift (right when negative) that brings a significand of len
\* bits to p + 3 bits without taking the exponent e below emin.
NormShift(fmt, len, e) ==
    IF e - (fmt.p + 3 - len) < fmt.emin THEN e - fmt.emin
    ELSE fmt.p + 3 - len

\* Round to nearest, ties to even: s holds 3 guard bits below the result.
RoundRNE(s) ==
    IF WMod8(s) > 4 \/ (WMod8(s) = 4 /\ WDiv8(s).lo % 2 = 1)
    THEN WInc(WDiv8(s))
    ELSE WDiv8(s)

\* The rounded significand q at exponent e: a carry out of the p bits moves
\* to the next exponent, and an exponent above emax is an overflow.
Pack(fmt, neg, q, e) ==
    IF q = WPow2(fmt.p)
    THEN (IF e + 1 > fmt.emax THEN Inf(neg)
          ELSE Fin(neg, e + 1, WPow2(fmt.p - 1)))
    ELSE IF e > fmt.emax THEN Inf(neg)
    ELSE Fin(neg, e, q)

\* The value of the format nearest to (-1)^neg * s0 * 2^(e0-3), s0 # 0.
RoundPack(fmt, neg, s0, e0) ==
    Let2(s0, e0, LAMBDA s, e :
    Let(NormShift(fmt, BitLen(s), e), LAMBDA sh :
    Let(IF sh >= 0 THEN WShl(s, sh) ELSE WShrS(s, -sh), LAMBDA s1 :
    Let(RoundRNE(s1), LAMBDA q :
        Pack(fmt, neg, q, e - sh)))))

Fneg(x) == IF x.k = "nan" THEN x ELSE [x EXCEPT !.neg = ~x.neg]

Fabs(x) == IF x.k = "nan" THEN x ELSE [x EXCEPT !.neg = FALSE]

\* big + small for finite values, |big| >= |small|, not both zero: the
\* smaller significand is aligned to the larger one with 3 guard bits.
AddAligned(fmt, big, small) ==
    Let2(WShl(big.m, 3), WShrS(WShl(small.m, 3), big.e - small.e),
         LAMBDA X, Y :
    Let(IF big.neg = small.neg THEN WAdd(X, Y) ELSE WSub(X, Y), LAMBDA S :
        IF WIsZero(S) THEN Zero(fmt, FALSE)
        ELSE RoundPack(fmt, big.neg, S, big.e)))

Fadd(fmt, x0, y0) ==
    Let2(x0, y0, LAMBDA x, y :
        IF x.k = "nan" \/ y.k = "nan" THEN NaN
        ELSE IF x.k = "inf" /\ y.k = "inf"
             THEN (IF x.neg = y.neg THEN x ELSE NaN)
        ELSE IF x.k = "inf" THEN x
        ELSE IF y.k = "inf" THEN y
        ELSE IF WIsZero(x.m) /\ WIsZero(y.m) THEN Zero(fmt, x.neg /\ y.neg)
        ELSE IF MagLt(x, y) THEN AddAligned(fmt, y, x)
        ELSE AddAligned(fmt, x, y))

Fsub(fmt, x, y) == Fadd(fmt, x, Fneg(y))

\* Long division of naturals below 2^24: q holds the leading quotient bits
\* and r < d is the remainder; each step appends 7 more bits.  After the
\* last step a non-zero remainder sets bit 0 (sticky).
RECURSIVE DivSteps(_, _, _, _)
DivSteps(r0, d, q0, steps) ==
    Let2(r0, q0, LAMBDA r, q :
        IF steps = 0 THEN Sticky(q, r # 0)
        ELSE DivSteps((r * 128) % d, d,
                      WAdd(WShl(q, 7), W(0, (r * 128) \div d)), steps - 1))

\* n / d for 2^23 <= n, d < 2^24, times 2^ex: the quotient is brought into
\* [1, 2) and 7 * steps fraction bits are computed.
DivAligned(fmt, neg, n, d, ex, steps) ==
    IF n < d
    THEN RoundPack(fmt, neg, DivSteps(2 * n - d, d, WOne, steps),
                   ex - 1 - 7 * steps + 3)
    ELSE RoundPack(fmt, neg, DivSteps(n - d, d, WOne, steps),
                   ex - 7 * steps + 3)

\* The value of the format nearest to numer / denom (0 < numer, denom < 2^24).
RoundRatio(fmt, neg, numer, denom) ==
    Let2(BitLen(W(0, numer)), BitLen(W(0, denom)), LAMBDA ln, ld :
        DivAligned(fmt, neg, numer * Pow2(24 - ln), denom * Pow2(24 - ld),
                   ln - ld, 8))

\* x / y for values whose significands fit 24 bits (binary32).
Fdiv(fmt, x0, y0) ==
    Let2(x0, y0, LAMBDA x, y :
        IF x.k = "nan" \/ y.k = "nan" THEN NaN
        ELSE IF x.k = "inf"
             THEN (IF y.k = "inf" THEN NaN ELSE Inf(x.neg # y.neg))
        ELSE IF y.k = "inf" THEN Zero(fmt, x.neg # y.neg)
        ELSE IF WIsZero(y.m)
             THEN (IF WIsZero(x.m) THEN NaN ELSE Inf(x.neg # y.neg))
        ELSE IF WIsZero(x.m) THEN Zero(fmt, x.neg # y.neg)
        ELSE Let2(BitLen(x.m), BitLen(y.m), LAMBDA ln, ld :
                DivAligned(fmt, x.neg # y.neg,
                           x.m.lo * Pow2(24 - ln), y.m.lo * Pow2(24 - ld),
                           (x.e + ln) - (y.e + ld), 4)))

\* The four-way outcome of PartialOrd::partial_cmp on floats.
Cmp(x, y) ==
    IF x.k = "nan" \/ y.k = "nan" THEN "un"
    ELSE IF IsZero(x) /\ IsZero(y) THEN "eq"
    ELSE IF x.neg # y.neg THEN (IF x.neg THEN "lt" ELSE "gt")
    ELSE IF x.k = "inf" /\ y.k = "inf" THEN "eq"
    ELSE IF x.k = "inf" THEN (IF x.neg THEN "lt" ELSE "gt")
    ELSE IF y.k = "inf" THEN (IF x.neg THEN "gt" ELSE "lt")
    ELSE IF MagLt(x, y) THEN (IF x.neg THEN "gt" ELSE "lt")
    ELSE IF MagLt(y, x) THEN (IF x.neg THEN "lt" ELSE "gt")
    ELSE "eq"

FCmp(x0, y0) == Let2(x0, y0, LAMBDA x, y : Cmp(x, y))

Fle(x, y) == FCmp(x, y) \in {"lt", "eq"}

Fge(x, y) == FCmp(x, y) \in {"gt", "eq"}

\* usize as f32 / integer literal: the nearest value of the format.
FromNat(fmt, n) ==
    IF n = 0 THEN Zero(fmt, FALSE)
    ELSE RoundPack(fmt, FALSE, WOfNat(n), 3)

\* A decimal literal numer/denom (1e-3 is 1/1000): the nearest value of the
\* format.
Lit(fmt, numer, denom) == RoundRatio(fmt, FALSE, numer, denom)

(***************************************************************************)
(* Values of the implementing types.  Every value carries its Rust type,   *)
(* which selects the trait implementation.                                 *)
(***************************************************************************)
Lanes == 4

F32Val(f) == [ty |-> "f32", x |-> f]

F64Val(f) == [ty |-> "f64", x |-> f]

Slice(es) == [ty |-> "slice", elems |-> es]

\* Option<A>: None is the empty sequence, Some(a) the sequence <<a>>
None == [ty |-> "option", val |-> <<>>]

Some(a) == [ty |-> "option", val |-> <<a>>]

F32x4(ls) == [ty |-> "f32x4", lanes |-> ls]

F64x4(ls) == [ty |-> "f64x4", lanes |-> ls]

Image(bs) == [ty |-> "image", bytes |-> bs]

Splat(f) == [i \in 1..Lanes |-> f]

Min(a, b) == IF a < b THEN a ELSE b

(***************************************************************************)
(* std::simd: lane-wise arithmetic, and the comparison operators of        *)
(* Simd<T, N>, which are those of PartialOrd: partial_cmp compares the     *)
(* lanes as arrays, lexicographically.                                     *)
(***************************************************************************)
SimdSub(fmt, a, b) == [i \in 1..Lanes |-> Fsub(fmt, a[i], b[i])]

SimdAbs(a) == [i \in 1..Lanes |-> Fabs(a[i])]

\* <[T] as PartialOrd>::partial_cmp: the first lane that is not Equal decides
SimdPartialCmp(a, b) ==
    LET diff == {i \in 1..Lanes : FCmp(a[i], b[i]) # "eq"}
    IN  IF diff = {} THEN "eq"
        ELSE LET first == CHOOSE i \in diff : \A j \in diff : i <= j
             IN  FCmp(a[first], b[first])

SimdLe(a, b) == SimdPartialCmp(a, b) \in {"lt", "eq"}

(***************************************************************************)
(* ApproxEq::approx, one operator per implementation.                      *)
(***************************************************************************)
RECURSIVE approx(_, _)

\* Variants of f32::approx with one slip each: a strict band, a forgotten
\* abs(), a sum for the difference, and the comparison written as "not
\* greater".
f32_approx_strict(self, other) ==
    FCmp(Fabs(Fsub(F32, self.x, other.x)), Lit(F32, 1, 1000)) = "lt"

f32_approx_noabs(self, other) ==
    Fle(Fsub(F32, self.x, other.x), Lit(F32, 1, 1000))

f32_approx_plus(self, other) ==
    Fle(Fabs(Fadd(F32, self.x, other.x)), Lit(F32, 1, 1000))

f32_approx_notgt(self, other) ==
    FCmp(Fabs(Fsub(F32, self.x, other.x)), Lit(F32, 1, 1000)) # "gt"

f32_approx(self, other) ==
    Fle(Fabs(Fsub(F32, self.x, other.x)), Lit(F32, 1, 1000))

f64_approx(self, other) ==
    Fle(Fabs(Fsub(F64, self.x, other.x)), Lit(F64, 1, 1000000))

\* Iterator::zip stops at the shorter side
Zip(s, t) == [i \in 1..Min(Len(s), Len(t)) |-> <<s[i], t[i]>>]

\* Variants of <[A]>::approx with one slip each: the length check left out,
\* and a comparison that ignores the positions.
slice_approx_nolen(self, other) ==
    LET z == Zip(self.elems, other.elems)
    IN  \A i \in DOMAIN z : approx(z[i][1], z[i][2])

slice_approx_unordered(self, other) ==
    IF Len(self.elems) # Len(other.elems) THEN FALSE
    ELSE \A i \in DOMAIN self.elems :
            \E j \in DOMAIN other.elems :
                approx(self.elems[i], other.elems[j])

slice_approx(self, other) ==
    IF Len(self.elems) # Len(other.elems) THEN FALSE
    ELSE LET z == Zip(self.elems, other.elems)
         IN  \A i \in DOMAIN z : approx(z[i][1], z[i][2])

\* Variant of Option::approx in which a missing value matches anything.
option_approx_wild(self, other) ==
    CASE Len(self.val) = 1 /\ Len(other.val) = 1 ->
            approx(self.val[1], other.val[1])
      [] OTHER -> TRUE

option_approx(self, other) ==
    CASE Len(self.val) = 1 /\ Len(other.val) = 1 ->
            approx(self.val[1], other.val[1])
      [] Len(self.val) = 0 /\ Len(other.val) = 0 -> TRUE
      [] OTHER -> FALSE

f32x4_approx(self, other) ==
    SimdLe(SimdAbs(SimdSub(F32, self.lanes, other.lanes)),
           Splat(Lit(F32, 1, 1000)))

f64x4_approx(self, other) ==
    SimdLe(SimdAbs(SimdSub(F64, self.lanes, other.lanes)),
           Splat(Lit(F64, 1, 1000000)))

\* examples/image.rs
image_approx(self, other) ==
    LET z     == Zip(self.bytes, other.bytes)
        count == Cardinality({i \in DOMAIN z : z[i][1] = z[i][2]})
    IN  Fge(Fdiv(F32, FromNat(F32, count), FromNat(F32, Len(self.bytes))),
            Lit(F32, 8, 10))

\* Trait dispatch on the static type of self.
approx(self, other) ==
    CASE self.ty = "f32"    -> f32_approx(self, other)
      [] self.ty = "f64"    -> f64_approx(self, other)
      [] self.ty = "slice"  -> slice_approx(self, other)
      [] self.ty = "option" -> option_approx(self, other)
      [] self.ty = "f32x4"  -> f32x4_approx(self, other)
      [] self.ty = "f64x4"  -> f64x4_approx(self, other)
      [] self.ty = "image"  -> image_approx(self, other)

(***************************************************************************)
(* ApproxEq::assert_approx: assert!(self.approx(other.clone()), ...).      *)
(* Each operator gives the outcome of the call: whether it panics, and the *)
(* operands handed to the panic message's formatter.                       *)
(***************************************************************************)
Clone(v) == v

Outcome(ok, self, other) ==
    [panics |-> ~ok, msg |-> IF ok THEN <<>> ELSE <<self, other>>]

default_assert_approx(self, other) ==
    Outcome(approx(self, Clone(other)), self, other)

\* Variant of f32::assert_approx whose assertion is compiled out.
f32_assert_approx_off(self, other) == Outcome(TRUE, self, other)

f32_assert_approx(self, other) ==
    Outcome(f32_approx(self, Clone(other)), self, other)

f64_assert_approx(self, other) ==
    Outcome(f64_approx(self, Clone(other)), self, other)

slice_assert_approx(self, other) ==
    Outcome(slice_approx(self, Clone(other)), self, other)

option_assert_approx(self, other) ==
    Outcome(option_approx(self, Clone(other)), self, other)

f32x4_assert_approx(self, other) ==
    Outcome(f32x4_approx(self, Clone(other)), self, other)

f64x4_assert_approx(self, other) ==
    Outcome(f64x4_approx(self, Clone(other)), self, other)

assert_approx(self, other) ==
    CASE self.ty = "f32"    -> f32_assert_approx(self, other)
      [] self.ty = "f64"    -> f64_assert_approx(self, other)
      [] self.ty = "slice"  -> slice_assert_approx(self, other)
      [] self.ty = "option" -> option_assert_approx(self, other)
      [] self.ty = "f32x4"  -> f32x4_assert_approx(self, other)
      [] self.ty = "f64x4"  -> f64x4_assert_approx(self, other)
      [] self.ty = "image"  -> default_assert_approx(self, other)

(***************************************************************************)
(* Operands.  The scalar sets hold the values of the crate's tests, the    *)
(* tolerance itself with its neighbours, and the special values.           *)
(***************************************************************************)
MaxLen == 2

MaxImageLen == 5

NextUp(f) == [f EXCEPT !.m = WInc(@)]

NextDown(f) == [f EXCEPT !.m = WSub(@, W(0, 1))]

MaxFinite(fmt) == Fin(FALSE, fmt.emax, WSub(WPow2(fmt.p), W(0, 1)))

MinPositive(fmt) == Fin(FALSE, fmt.emin, W(0, 1))

\* 0, 1, 1 + t/10 (or the nearest literal), 1 + t, -1, t, 2t, t/2, -t/2,
\* the two neighbours of t, NaN, the infinities, the largest and the
\* smallest positive value; t is tnum / tden.
Scalars(fmt, tnum, tden) ==
    LET t == Lit(fmt, tnum, tden)
    IN  { Zero(fmt, FALSE), Lit(fmt, 1, 1),
          Lit(fmt, 10 * tden + tnum, 10 * tden),
          Lit(fmt, tden + tnum, tden),
          Fneg(Lit(fmt, 1, 1)),
          t, Lit(fmt, 2 * tnum, tden), Lit(fmt, tnum, 2 * tden),
          Fneg(Lit(fmt, tnum, 2 * tden)), NextUp(t), NextDown(t),
          NaN, Inf(FALSE), Inf(TRUE), MaxFinite(fmt), MinPositive(fmt) }

F32Scalars == {F32Val(f) : f \in Scalars(F32, 1, 1000)}

F64Scalars == {F64Val(f) : f \in Scalars(F64, 1, 1000000)}

SeqsUpTo(S, n) == UNION {[1..k -> S] : k \in 0..n}

SliceElemsF32 ==
    {F32Val(f) : f \in {Lit(F32, 1, 1), Lit(F32, 10001, 10000),
                        Lit(F32, 2, 1), NaN}}

SliceElemsOpt == {None, Some(F32Val(Lit(F32, 1, 1))), Some(F32Val(Lit(F32, 2, 1)))}

SlicesF32 == {Slice(es) : es \in SeqsUpTo(SliceElemsF32, MaxLen)}

SlicesOpt == {Slice(es) : es \in SeqsUpTo(SliceElemsOpt, MaxLen)}

Options == {None} \cup {Some(v) : v \in F32Scalars}

LaneValues(fmt, tnum, tden) ==
    {Zero(fmt, FALSE), Lit(fmt, tnum, tden), Lit(fmt, 1, 1), NaN}

VecSelf(fmt) == {Splat(Zero(fmt, FALSE)), Splat(Lit(fmt, 1, 1))}

VecOther(fmt, tnum, tden) ==
    [1..Lanes -> LaneValues(fmt, tnum, tden)]
        \cup {Splat(Lit(fmt, 10 * tden + tnum, 10 * tden))}

Images == {Image(bs) : bs \in SeqsUpTo({1, 2}, MaxImageLen)}

\* the two pairs compared by main() of examples/image.rs
MainPairs ==
    { <<Image(<<1, 2, 3, 4, 5>>), Image(<<1, 2, 3, 4, 6>>)>>,
      <<Image(<<1, 2, 3, 4, 5>>), Image(<<1, 2, 3, 5, 6>>)>> }

(***************************************************************************)
(* The state machine: a caller holds a receiver and an argument of the     *)
(* same type and makes one call.                                           *)
(***************************************************************************)
VARIABLES
    recv,     \* the receiver, self
    arg,      \* the argument, other
    pc,       \* "ready", "returned" or "panicked"
    method,   \* the method called: "none", "approx" or "assert_approx"
    ret,      \* <<b>> once approx returned b, else <<>>
    msg       \* the operands of the panic message, else <<>>

vars == <<recv, arg, pc, method, ret, msg>>

Init ==
    /\ \/ recv \in F32Scalars /\ arg \in F32Scalars
       \/ recv \in F64Scalars /\ arg \in F64Scalars
       \/ recv \in SlicesF32 /\ arg \in SlicesF32
       \/ recv \in SlicesOpt /\ arg \in SlicesOpt
       \/ recv \in Options /\ arg \in Options
       \/ /\ recv \in {F32x4(l) : l \in VecSelf(F32)}
          /\ arg \in {F32x4(l) : l \in VecOther(F32, 1, 1000)}
       \/ /\ recv \in {F64x4(l) : l \in VecSelf(F64)}
          /\ arg \in {F64x4(l) : l \in VecOther(F64, 1, 1000000)}
       \/ recv \in Images /\ arg \in Images
       \/ \E pr \in MainPairs : recv = pr[1] /\ arg = pr[2]
    /\ pc = "ready"
    /\ method = "none"
    /\ ret = <<>>
    /\ msg = <<>>

\* recv.approx(arg) for a receiver of type ty, implemented by impl
CallApprox(ty, b) ==
    /\ pc = "ready"
    /\ recv.ty = ty
    /\ ret' = <<b>>
    /\ pc' = "returned"
    /\ method' = "approx"
    /\ UNCHANGED <<recv, arg, msg>>

\* recv.assert_approx(arg) with outcome o
CallAssert(ty, o) ==
    /\ pc = "ready"
    /\ recv.ty = ty
    /\ pc' = IF o.panics THEN "panicked" ELSE "returned"
    /\ msg' = o.msg
    /\ method' = "assert_approx"
    /\ UNCHANGED <<recv, arg, ret>>

ApproxF32 == CallApprox("f32", f32_approx(recv, arg))

ApproxF64 == CallApprox("f64", f64_approx(recv, arg))

ApproxSlice == CallApprox("slice", slice_approx(recv, arg))

ApproxOption == CallApprox("option", option_approx(recv, arg))

ApproxF32x4 == CallApprox("f32x4", f32x4_approx(recv, arg))

ApproxF64x4 == CallApprox("f64x4", f64x4_approx(recv, arg))

ApproxImage == CallApprox("image", image_approx(recv, arg))

AssertApproxF32 == CallAssert("f32", f32_assert_approx(recv, arg))

AssertApproxF64 == CallAssert("f64", f64_assert_approx(recv, arg))

AssertApproxSlice == CallAssert("slice", slice_assert_approx(recv, arg))

AssertApproxOption == CallAssert("option", option_assert_approx(recv, arg))

AssertApproxF32x4 == CallAssert("f32x4", f32x4_assert_approx(recv, arg))

AssertApproxF64x4 == CallAssert("f64x4", f64x4_assert_approx(recv, arg))

AssertApproxImage == CallAssert("image", default_assert_approx(recv, arg))

Next ==
    \/ ApproxF32
    \/ ApproxF64
    \/ ApproxSlice
    \/ ApproxOption
    \/ ApproxF32x4
    \/ ApproxF64x4
    \/ ApproxImage
    \/ AssertApproxF32
    \/ AssertApproxF64
    \/ AssertApproxSlice
    \/ AssertApproxOption
    \/ AssertApproxF32x4
    \/ AssertApproxF64x4
    \/ AssertApproxImage

Spec == Init /\ [][Next]_vars

(***************************************************************************)
(* Properties.                                                             *)
(***************************************************************************)
Called(m, tys) == method = m /\ recv.ty \in tys

Fmt(ty) == IF ty = "f32" THEN F32 ELSE F64

\* the tolerance of a scalar type: the literal 1e-3 or 1e-6
Tol(ty) == IF ty = "f32" THEN Lit(F32, 1, 1000) ELSE Lit(F64, 1, 1000000)

\* how |a - b|, computed in the scalar type, compares with the tolerance
DiffVsTol(ty, a, b) == FCmp(Fabs(Fsub(Fmt(ty), a, b)), Tol(ty))

Matching(s, t) == {i \in 1..Min(Len(s), Len(t)) : s[i] = t[i]}

\* t is s reordered by a permutation other than the identity
IsReordering(s, t) ==
    /\ Len(s) = Len(t)
    /\ \E p \in Permutations(1..Len(s)) :
          /\ \E i \in 1..Len(s) : p[i] # i
          /\ \A i \in 1..Len(s) : t[i] = s[p[i]]

RECURSIVE AllFinite(_)
AllFinite(v) ==
    CASE v.ty \in {"f32", "f64"} -> IsFinite(v.x)
      [] v.ty = "slice"  -> \A i \in DOMAIN v.elems : AllFinite(v.elems[i])
      [] v.ty = "option" -> \A i \in DOMAIN v.val : AllFinite(v.val[i])

\* C1: for f32 and f64, approx(a, b) is true if and only if |a - b| <= T
\* with T = 1e-3 (f32) and T = 1e-6 (f64); the band is inclusive: a
\* difference equal to T is accepted, a greater one is rejected (and a
\* difference that is NaN is not <= T).
C1_ScalarTolerance ==
    Called("approx", {"f32", "f64"}) =>
        /\ DiffVsTol(recv.ty, recv.x, arg.x) \in {"lt", "eq"} => ret = <<TRUE>>
        /\ DiffVsTol(recv.ty, recv.x, arg.x) \in {"gt", "un"} => ret = <<FALSE>>

\* a pair whose difference is exactly T has been accepted
C1_Witness ==
    /\ Called("approx", {"f32"})
    /\ DiffVsTol("f32", recv.x, arg.x) = "eq"
    /\ ret = <<TRUE>>

\* C2: for sequences, approx(s, t) is true if and only if s and t have the
\* same length and s[i].approx(t[i]) for every index i; different lengths
\* are never approx-equal, two empty sequences are.
C2_SliceRule ==
    Called("approx", {"slice"}) =>
        /\ ret = << /\ Len(recv.elems) = Len(arg.elems)
                    /\ \A i \in 1..Len(recv.elems) :
                          approx(recv.elems[i], arg.elems[i]) >>
        /\ Len(recv.elems) # Len(arg.elems) => ret = <<FALSE>>
        /\ (Len(recv.elems) = 0 /\ Len(arg.elems) = 0) => ret = <<TRUE>>

\* a sequence compared with a longer one that extends it by approx-equal
\* elements has been rejected
C2_Witness ==
    /\ Called("approx", {"slice"})
    /\ 0 < Len(recv.elems) /\ Len(recv.elems) < Len(arg.elems)
    /\ \A i \in 1..Len(recv.elems) : approx(recv.elems[i], arg.elems[i])
    /\ ret = <<FALSE>>

\* C3: approx(Some(a), Some(b)) = a.approx(b), approx(None, None) is true,
\* and approx is false when exactly one operand is None, in either order.
C3_OptionRule ==
    Called("approx", {"option"}) =>
        /\ (Len(recv.val) = 1 /\ Len(arg.val) = 1)
              => ret = <<approx(recv.val[1], arg.val[1])>>
        /\ (Len(recv.val) = 0 /\ Len(arg.val) = 0) => ret = <<TRUE>>
        /\ Len(recv.val) # Len(arg.val) => ret = <<FALSE>>

\* None compared with Some(_) has been rejected
C3_Witness ==
    /\ Called("approx", {"option"})
    /\ Len(recv.val) = 0 /\ Len(arg.val) = 1
    /\ ret = <<FALSE>>

\* C4: for every implementation, assert_approx(a, b) panics if and only if
\* approx(a, b) is false; when approx(a, b) is true the call returns, leaves
\* both operands unchanged and has no other effect.
C4_AssertHalts ==
    [][ method' = "assert_approx" =>
          /\ (pc' = "panicked") = ~approx(recv, arg)
          /\ (pc' = "returned") = approx(recv, arg)
          /\ recv' = recv /\ arg' = arg
          /\ ret' = ret
          /\ pc' = "returned" => msg' = <<>> ]_vars

\* both outcomes of the trait's default assert_approx have happened; this is
\* the panic
C4_Witness ==
    /\ Called("assert_approx", {"image"})
    /\ pc = "panicked"
    /\ ~approx(recv, arg)

\* C5: approx(a, b) = approx(b, a) for f32, f64, sequences and Options,
\* operands of different lengths or presence included.
C5_Symmetric ==
    Called("approx", {"f32", "f64", "slice", "option"}) =>
        ret = <<approx(arg, recv)>>

\* two different scalars, the smaller one the receiver, were found
\* approx-equal
C5_Witness ==
    /\ Called("approx", {"f64"})
    /\ FCmp(recv.x, arg.x) = "lt"
    /\ ret = <<TRUE>>

\* C6: approx(x, x) is true for every finite scalar x, and so for every
\* sequence or Option built from finite scalars, compared with itself or an
\* identical copy.
C6_Reflexive ==
    (Called("approx", {"f32", "f64", "slice", "option"})
        /\ arg = recv /\ AllFinite(recv)) => ret = <<TRUE>>

\* a non-empty sequence of finite scalars was compared with its copy
C6_Witness ==
    /\ Called("approx", {"slice"})
    /\ arg = recv /\ AllFinite(recv) /\ Len(recv.elems) = MaxLen
    /\ recv.elems[1].ty = "f32"
    /\ ret = <<TRUE>>

\* C7: approx always returns a boolean and never panics; a NaN scalar
\* operand gives false against anything, NaN included; sequences of
\* different lengths give false; a Some/None mismatch gives false.
C7_Total ==
    method = "approx" =>
        /\ pc = "returned"
        /\ ret \in {<<TRUE>>, <<FALSE>>}
        /\ msg = <<>>
        /\ (recv.ty \in {"f32", "f64"} /\ (IsNaN(recv.x) \/ IsNaN(arg.x)))
              => ret = <<FALSE>>
        /\ (recv.ty = "slice" /\ Len(recv.elems) # Len(arg.elems))
              => ret = <<FALSE>>
        /\ (recv.ty = "option" /\ Len(recv.val) # Len(arg.val))
              => ret = <<FALSE>>

\* NaN was compared with NaN
C7_Witness ==
    /\ Called("approx", {"f32"})
    /\ IsNaN(recv.x) /\ IsNaN(arg.x)
    /\ pc = "returned" /\ ret = <<FALSE>>

\* C8: for f32x4 and f64x4, approx(a, b) is true if and only if every one of
\* the 4 lanes satisfies the scalar rule |a[i] - b[i]| <= T.
C8_LaneWise ==
    Called("approx", {"f32x4", "f64x4"}) =>
        LET sty == IF recv.ty = "f32x4" THEN "f32" ELSE "f64"
        IN  ret = << \A i \in 1..Lanes :
                        DiffVsTol(sty, recv.lanes[i], arg.lanes[i])
                            \in {"lt", "eq"} >>

\* What the vector implementations compute instead: the first lane whose
\* difference is not exactly T decides, the later lanes are not looked at.
SimdFirstLaneDecides ==
    Called("approx", {"f32x4", "f64x4"}) =>
        LET sty  == IF recv.ty = "f32x4" THEN "f32" ELSE "f64"
            c(i) == DiffVsTol(sty, recv.lanes[i], arg.lanes[i])
        IN  ret = << \/ \A i \in 1..Lanes : c(i) = "eq"
                     \/ \E i \in 1..Lanes :
                           /\ c(i) = "lt"
                           /\ \A j \in 1..(i - 1) : c(j) = "eq" >>

\* C9: for Image, approx(a, b) is true exactly when at least 80% of the
\* positions hold matching bytes (matches over the zipped pairs, out of the
\* length of self); of two 5-byte images, a pair differing in one position
\* is approx-equal and a pair differing in two is not.
C9_Threshold ==
    Called("approx", {"image"}) =>
        ret = << 5 * Cardinality(Matching(recv.bytes, arg.bytes))
                    >= 4 * Len(recv.bytes) >>

\* The same rule for a receiver that is not empty.
ImageThresholdNonEmpty ==
    (Called("approx", {"image"}) /\ Len(recv.bytes) > 0) =>
        ret = << 5 * Cardinality(Matching(recv.bytes, arg.bytes))
                    >= 4 * Len(recv.bytes) >>

\* C10 as stated: a sequence compared with a reordering of itself (by a
\* permutation other than the identity, here one that changes the sequence)
\* is never approx-equal.
C10_ReorderedNeverEqual ==
    (Called("approx", {"slice"}) /\ IsReordering(recv.elems, arg.elems)
        /\ arg # recv)
        => ret = <<FALSE>>

\* C10, amended: the comparison is positional.  A sequence compared with a
\* reordering of itself is not approx-equal exactly when the reordering
\* puts, at some index, an element that is not approx-equal to the element
\* the sequence holds at that index.
C10_Positional ==
    (Called("approx", {"slice"}) /\ IsReordering(recv.elems, arg.elems))
        => (ret = <<FALSE>>) =
              (\E i \in 1..Len(recv.elems) :
                  ~approx(recv.elems[i], arg.elems[i]))

\* a sequence of finite elements was compared with a reordering of itself
\* and rejected
C10_Witness ==
    /\ Called("approx", {"slice"})
    /\ IsReordering(recv.elems, arg.elems)
    /\ AllFinite(recv)
    /\ ret = <<FALSE>>

=============================================================================
